---- MODULE Spec2Model ----
(***************************************************************************)
(* Article / tag persistence of the blog backend (server/app): the REST    *)
(* handlers ArticleList.post, ArticleResource.put and                      *)
(* ArticleResource.delete, the Celery tasks write_blog and                 *)
(* generate_article_embedding, and the relational store they share.        *)
(*                                                                         *)
(* The store is the three tables of models/article.py with the constraints *)
(* declared there (primary keys from sequences, unique slug, unique tag    *)
(* name, unique (article_id, tag_id), NOT NULL and foreign keys).  A       *)
(* db.session is a unit of work: rows it wrote are visible to it at once   *)
(* and to everybody else after commit; a constraint violation raises       *)
(* IntegrityError at the flush that meets it and the session is rolled     *)
(* back.  Sequence values handed out are never given back.                 *)
(*                                                                         *)
(* Fields of Article that no handler treats specially (image, is_draft,    *)
(* created_at, updated_at) are left out; content is kept as the third      *)
(* plain field.                                                            *)
(*                                                                         *)
(* ArticleSchema is the pydantic model of api/schemas/article.py: building *)
(* it validates its keyword arguments, so ArticleSchema() and              *)
(* ArticleSchema(partial=True) raise ValidationError and post and put end  *)
(* at their first line.  The LLM workflow (returns a draft or raises), the *)
(* embedding model (returns a vector or raises) and the Celery queue are   *)
(* taken by the contract their call sites are written against.             *)
(***************************************************************************)
EXTENDS Integers, Sequences, FiniteSets, Bags, TLC

\* ---------------------------------------------------------------- bounds
MaxArticleId == 2      \* values the articles id sequence may hand out
MaxTagId == 2          \* values the tags id sequence may hand out
MaxQueue == 1          \* tasks waiting in the Celery queue
MaxCalls == 3          \* calls begun by the processes that run step by step
MaxTexts == 3          \* length of the list given to get_embeddings
MaxBatch == 3          \* largest batch_size given to get_embeddings
cache_size == 2        \* EmbeddingService(cache_size=...), 1000 by default

\* ------------------------------------------------------- program constants
max_retries == 3       \* tasks/article_embeddings.py:6

\* ------------------------------------------------------------ input sets
Users == {1}
Titles == {"A", "B"}
Slugs == {"a", "b"}
Contents == {"c"}
TagNames == {"x", "y"}
TagLists == {<<>>, <<"x">>, <<"y">>, <<"x", "y">>, <<"x", "x">>}

NoId == 0              \* Python None / SQL NULL in an integer column
NoEmbedding == <<>>    \* SQL NULL in articles.embedding
NoTag == [id |-> NoId, name |-> ""]

Range(f) == {f[i] : i \in DOMAIN f}
Min(S) == CHOOSE m \in S : \A n \in S : m <= n

VARIABLES
    articles,       \* committed rows of table articles
    tags,           \* committed rows of table tags
    article_tags,   \* committed rows of table article_tags
    article_seq,    \* last value handed out by the articles id sequence
    tag_seq,        \* last value handed out by the tags id sequence
    queue,          \* bag of generate_article_embedding messages in flight
    event,          \* the last call or task execution, and how it ended
    tx,             \* per process: the call it is in the middle of, if any
    calls,          \* number of calls the processes of tx have begun
    flow,           \* the run of the blog workflow: next node and its state
    service         \* the EmbeddingService: its cache and its last call

\* What the handlers and tasks of the store leave alone.
aux == <<flow, service>>

vars == <<articles, tags, article_tags, article_seq, tag_seq, queue, event, tx,
          calls, aux>>

\* The processes (web workers, Celery workers) that may be inside a
\* transaction at the same time.
Procs == {1, 2}

\* ------------------------------------------------------------- the store
\* models/article.py: one record per row.
ArticleRow(id, slug, title, content, author_id, embedding) ==
    [id |-> id, slug |-> slug, title |-> title, content |-> content,
     author_id |-> author_id, embedding |-> embedding]
TagRow(id, name) == [id |-> id, name |-> name]
ArticleTagRow(id, article_id, tag_id) ==
    [id |-> id, article_id |-> article_id, tag_id |-> tag_id]

\* The attributes an Article instance has (the columns of the model, and the
\* author backref declared by User.posts).
ArticleAttributes ==
    {"id", "image", "slug", "title", "content", "author_id", "created_at",
     "updated_at", "is_draft", "embedding", "author"}

Ids(rows) == {r.id : r \in rows}

\* The keys of article_tags rows that the open transactions wrote or
\* deleted.
AtHeld == UNION {Ids(tx[p].s.at_ins) \cup tx[p].s.at_del : p \in Procs}

\* The committed store, as a value the handlers compute on.
Db == [articles |-> articles, tags |-> tags, article_tags |-> article_tags,
       article_seq |-> article_seq, tag_seq |-> tag_seq, at_held |-> AtHeld]

\* A db.session with nothing in it.  article is the handler's Article
\* object and article_state its state in the session: "none" (no object),
\* "transient" (built, not added), "pending" (added, not flushed),
\* "persistent" (loaded or flushed), "deleted", "expired" (committed: its
\* attributes are loaded again when they are next read).
NewSession ==
    [article |-> ArticleRow(NoId, "", "", "", NoId, NoEmbedding),
     article_state |-> "none",
     tags_ins |-> {}, at_ins |-> {}, at_del |-> {}, error |-> "none"]

\* What the queries of a session see: the committed rows with its own
\* writes applied.
View(c) ==
    [articles |->
        IF c.s.article_state = "persistent"
        THEN {a \in c.db.articles : a.id # c.s.article.id} \cup {c.s.article}
        ELSE IF c.s.article_state = "deleted"
        THEN {a \in c.db.articles : a.id # c.s.article.id}
        ELSE c.db.articles,
     tags |-> c.db.tags \cup c.s.tags_ins,
     article_tags |->
        {r \in c.db.article_tags : r.id \notin c.s.at_del} \cup c.s.at_ins]

\* The constraints of models/article.py on a set of tables.
UniqueSlug_NotEnforced(v) == TRUE
UniqueSlug(v) ==
    \A a1, a2 \in v.articles : a1 # a2 => a1.slug # a2.slug
UniqueTagName_NotEnforced(v) == TRUE
UniqueTagName(v) ==
    \A t1, t2 \in v.tags : t1 # t2 => t1.name # t2.name
UniqueArticleTag(v) ==
    \A r1, r2 \in v.article_tags :
        r1 # r2 => ~(r1.article_id = r2.article_id /\ r1.tag_id = r2.tag_id)
NotNull(v) ==
    \A r \in v.article_tags : r.article_id # NoId /\ r.tag_id # NoId
ForeignKeys(v) ==
    /\ \A r \in v.article_tags :
        /\ r.article_id \in Ids(v.articles)                   \* ForeignKey('articles.id')
        /\ r.tag_id \in Ids(v.tags)                           \* ForeignKey('tags.id')
    /\ \A a \in v.articles : a.author_id \in Users            \* ForeignKey('users.id')

\* The IntegrityError a flush of the tables v raises, "none" when they meet
\* every constraint.  A flush writes articles, then tags, then article_tags.
Violation(v) ==
    IF ~UniqueSlug(v) THEN "UniqueViolation articles.slug"
    ELSE IF ~UniqueTagName(v) THEN "UniqueViolation tags.name"
    ELSE IF ~NotNull(v) THEN "NotNullViolation article_tags.article_id"
    ELSE IF ~UniqueArticleTag(v) THEN "UniqueViolation uix_article_tag"
    ELSE IF ~ForeignKeys(v) THEN "ForeignKeyViolation"
    ELSE "none"

\* The surrogate key of an article_tags row is never read by the program,
\* so only the identity of a row matters: a new row takes the least key that
\* no committed row and no row an open transaction wrote or deleted carries.
FreshAtId(c) ==
    LET used == Ids(c.db.article_tags) \cup Ids(c.s.at_ins) \cup c.s.at_del
                    \cup c.db.at_held
    IN Min((1..(Cardinality(used) + 1)) \ used)

\* session.flush(), also run by autoflush before every query: pending
\* objects are written (a pending Article gets its id from the sequence) and
\* the store checks its constraints.
Flush(c) ==
    IF c.s.error # "none" THEN c
    ELSE
    LET c1 == IF c.s.article_state = "pending"
              THEN [db |-> [c.db EXCEPT !.article_seq = @ + 1],
                    s |-> [c.s EXCEPT !.article.id = c.db.article_seq + 1,
                                      !.article_state = "persistent"]]
              ELSE c
    IN [c1 EXCEPT !.s.error = Violation(View(c1))]

\* Tag.query.filter_by(name=name).first()
TagFirst(c, name) ==
    LET found == {t \in View(c).tags : t.name = name}
    IN IF found = {} THEN NoTag
       ELSE CHOOSE t \in found : \A u \in found : t.id <= u.id

\* tag = Tag(name=name); db.session.add(tag); db.session.flush()
AddTagFlush(c, name) ==
    Flush([db |-> [c.db EXCEPT !.tag_seq = @ + 1],
           s |-> [c.s EXCEPT !.tags_ins = @ \cup {TagRow(c.db.tag_seq + 1, name)}]])

\* db.session.add(ArticleTag(article_id=article.id, tag_id=tag.id))
AddArticleTag(c, tag_id) ==
    [c EXCEPT !.s.at_ins =
        @ \cup {ArticleTagRow(FreshAtId(c), c.s.article.id, tag_id)}]

\* One turn of the loop "for tag_name in ...": get or create the tag, then
\* add the association row.
ResolveTag(c, tag_name) ==
    LET c1 == Flush(c)                               \* autoflush of the query
    IN IF c1.s.error # "none" THEN c1
       ELSE LET tag == TagFirst(c1, tag_name)
                c2 == IF tag = NoTag THEN AddTagFlush(c1, tag_name) ELSE c1
                tag_id == IF tag = NoTag THEN c2.db.tag_seq ELSE tag.id
            IN IF c2.s.error # "none" THEN c2 ELSE AddArticleTag(c2, tag_id)

RECURSIVE ResolveTags(_, _)
ResolveTags(c, tag_names) ==
    IF tag_names = <<>> \/ c.s.error # "none" THEN c
    ELSE ResolveTags(ResolveTag(c, Head(tag_names)), Tail(tag_names))

Commit_KeepsFlushed(c) ==
    [c EXCEPT !.db.articles = View(c).articles, !.db.tags = View(c).tags,
              !.db.article_tags = View(c).article_tags]
\* db.session.commit(): flush, then the session's writes become the
\* committed rows; on an error the session is rolled back (the sequences
\* keep the values they handed out).
Commit(c) ==
    LET c1 == Flush(c)
    IN IF c1.s.error # "none" THEN c1
       ELSE [c1 EXCEPT !.db.articles = View(c1).articles,
                       !.db.tags = View(c1).tags,
                       !.db.article_tags = View(c1).article_tags]

\* ------------------------------------------------------- request bodies
\* request.json: a function from the keys sent to their values.
Opt(k, V) == {<<>>} \cup {k :> v : v \in V}
PostBodies ==
    {t @@ sl @@ ct @@ tg :
        t \in {"title" :> v : v \in {"A", ""}}, sl \in {"slug" :> v : v \in Slugs},
        ct \in {"content" :> v : v \in Contents}, tg \in Opt("tags", TagLists)}
PutBodies ==
    {t @@ sl @@ tg :
        t \in Opt("title", {"B", ""}), sl \in Opt("slug", {"b"}),
        tg \in Opt("tags", TagLists)}

\* api/schemas/article.py, ArticleSchema(**data): pydantic validates the
\* keyword arguments when the object is built; title, content and slug are
\* required and have min_length=1.  TRUE when the object is built, FALSE
\* when ValidationError is raised.
RequiredFields == {"title", "content", "slug"}
ArticleSchema(data) ==
    /\ RequiredFields \subseteq DOMAIN data
    /\ \A k \in RequiredFields \cap DOMAIN data : data[k] # ""

\* The keyword arguments the handlers build their schema with.
PostSchemaArgs == <<>>                    \* ArticleSchema()
PutSchemaArgs == "partial" :> TRUE        \* ArticleSchema(partial=True)

\* The result of a handler: the store after it, how it ended (with the
\* IntegrityError raised, if any), the id of its article object, and whether
\* it reached its .delay() line.
Result(c, outcome, delay) ==
    [db |-> c.db, outcome |-> outcome, detail |-> c.s.error,
     article_id |-> c.s.article.id, delay |-> delay]

\* request.json['tags'] where the key was sent
TagsOf(json) == IF "tags" \in DOMAIN json THEN json["tags"] ELSE <<>>

\* ------------------------------------------------------------- handlers
\* How the application answers what a handler raised or returned.  A
\* ValidationError that leaves a resource is answered with 400 by the
\* handler of the blueprint (views.py 22-29) when exceptions propagate
\* (debug, testing), and with 500 by flask_restful's Api, which gets the
\* exceptions of its own endpoints first, when they do not.
Responses(outcome) ==
    IF outcome = "ValidationError" THEN {"400", "500"} ELSE {outcome}

\* ArticleResource.put: line 98 builds the schema and raises.  Were the
\* schema built, get_or_404 would follow, and schema.load, which a pydantic
\* model does not have (AttributeError).
put_NotPartial(db, article_id, json) ==
    LET load(a) == [a EXCEPT
            !.title = IF "title" \in DOMAIN json THEN json["title"] ELSE "",
            !.content = IF "content" \in DOMAIN json THEN json["content"] ELSE ""]
    IN [db |-> [db EXCEPT
                  !.articles = {IF a.id = article_id THEN load(a) ELSE a : a \in @},
                  !.article_tags = {r \in @ : r.article_id # article_id}],
        outcome |-> IF article_id \in Ids(db.articles) THEN "ok" ELSE "404",
        detail |-> "none", article_id |-> article_id, delay |-> FALSE]
put(db, article_id, json) ==
    LET c0 == [db |-> db, s |-> NewSession]
    IN IF ~ArticleSchema(PutSchemaArgs) THEN Result(c0, "ValidationError", FALSE)
       ELSE IF {a \in db.articles : a.id = article_id} = {}
       THEN Result(c0, "404", FALSE)
       ELSE Result(c0, "500", FALSE)

\* ArticleList.post: line 184 builds the schema and raises, as in put.
post_DelaysFirst(db, current_user, json) ==
    [db |-> db, outcome |-> "ValidationError", detail |-> "none",
     article_id |-> NoId, delay |-> TRUE]
post(db, current_user, json) ==
    LET c0 == [db |-> db, s |-> NewSession]
    IN IF ~ArticleSchema(PostSchemaArgs) THEN Result(c0, "ValidationError", FALSE)
       ELSE Result(c0, "500", FALSE)

\* ArticleResource.delete
delete(db, article_id) ==
    LET found == {a \in db.articles : a.id = article_id}
        c0 == [db |-> db, s |-> NewSession]
    IN IF found = {} THEN Result(c0, "404", FALSE)             \* get_or_404
       ELSE
       LET c1 == [c0 EXCEPT !.s.article = CHOOSE a \in found : TRUE,
                            !.s.article_state = "deleted"]
           c2 == Commit(c1)
       IN IF c2.s.error # "none" THEN Result(c2, "500", FALSE)
          ELSE Result(c2, "ok", FALSE)

\* slugify(topic), on the topics of the model: lower case.
slugify(topic) ==
    CASE topic = "A" -> "a" [] topic = "B" -> "b" [] OTHER -> topic

\* state["suggested_tags"] as analyze_content leaves it in the result of
\* the workflow.
SuggestedTags == <<"AI", "Technology", "Tutorial">>

TagsApplied_WithSuggested(tag_names, suggested_tags) ==
    tag_names \o SubSeq(suggested_tags, 1, 1)
\* The names the tags loop of write_blog runs over: its tags argument; the
\* result of the workflow is read for its draft only.
TagsApplied(tag_names, suggested_tags) == tag_names

\* write_blog, lines 67-80: the commit has expired the article, and reading
\* article.id loads its row again.  A row that is gone raises
\* ObjectDeletedError, a SQLAlchemyError, which lines 82-89 answer.
Reloaded(c) ==
    IF c.s.article.id \in Ids(c.db.articles)
    THEN Result(c, "success", FALSE)
    ELSE [Result(c, "Database error occurred", FALSE) EXCEPT
             !.detail = "ObjectDeletedError"]

\* write_blog, run with no other process at work; draft is result["draft"]
\* of the workflow, or "" when the workflow raised.
write_blog(db, topic, author_id, tag_names, workflow_ok, draft) ==
    LET c0 == [db |-> db, s |-> NewSession]
    IN IF ~workflow_ok THEN Result(c0, "An unexpected error occurred", FALSE)
       ELSE
       LET article == ArticleRow(NoId, slugify(topic), topic, draft, author_id, NoEmbedding)
           c1 == [c0 EXCEPT !.s.article = article, !.s.article_state = "pending"]
           names == TagsApplied(tag_names, SuggestedTags)
           c2 == IF names # <<>> THEN ResolveTags(c1, names) ELSE c1
           c3 == Commit(c2)
       IN IF c3.s.error # "none" THEN Result(c3, "Database error occurred", FALSE)
          ELSE Reloaded(c3)

\* generate_article_embedding.delay(article_id)
Message(article_id, retries) == [article_id |-> article_id, retries |-> retries]
delay(q, article_id) == q (+) SetToBag({Message(article_id, 0)})

\* ----------------------------------------------------------------- tasks
\* The attributes line 23 reads to build text_to_embed.
TextAttributes == <<"title", "description", "content">>

\* embeddings.get_embedding(text): the vector the model gives for a text.
get_embedding(text) == <<"vector of", text>>

\* self.retry(exc=e): the message is sent again with retries + 1, unless
\* max_retries is used up, and then exc is raised out of the task.
retry(q, msg) ==
    IF msg.retries + 1 > max_retries
    THEN [queue |-> q, outcome |-> "raised"]
    ELSE [queue |-> q (+) SetToBag({Message(msg.article_id, msg.retries + 1)}),
          outcome |-> "retry"]

\* article = Article.query.get(article_id); if not article: ... return
ArticleMissing_Ignored(found) == FALSE
ArticleMissing(found) == found = {}

\* One execution of generate_article_embedding for the message msg;
\* model_ok says whether the embedding model answers or raises.
generate_article_embedding(db, q, msg, model_ok) ==
    LET found == {a \in db.articles : a.id = msg.article_id}
        none == [db |-> db, model_called |-> FALSE]
    IN IF ArticleMissing(found)
       THEN none @@ [queue |-> q, outcome |-> "returned"]
       ELSE IF ~(Range(TextAttributes) \subseteq ArticleAttributes)
       THEN none @@ retry(q, msg)                              \* AttributeError
       ELSE IF ~model_ok
       THEN [db |-> db, model_called |-> TRUE] @@ retry(q, msg)
       ELSE
       LET article == CHOOSE a \in found : TRUE
           text == <<article.title, article.content>>
           c1 == [db |-> db,
                  s |-> [NewSession EXCEPT
                            !.article = [article EXCEPT !.embedding = get_embedding(text)],
                            !.article_state = "persistent"]]
           c2 == Commit(c1)
       IN [db |-> c2.db, model_called |-> TRUE, queue |-> q, outcome |-> "succeeded"]

\* ---------------------------------------------------------- blog workflow
\* services/agents/writting_agent.py.  The texts the LLM and the search tool
\* return are left out, except the outline: the draft is kept as the
\* sequence of its section headings ("## <section>"), in the order written.
MaxOutline == 3        \* entries of an outline
MaxDraft == 4          \* sections written in one run of the workflow
Lines == {"a", "b"}
Outlines == UNION {[1..n -> Lines] : n \in 0..MaxOutline}

NoSection == ""        \* current_section = None

\* BlogState.__init__ / BlogState.dict
BlogState ==
    [topic |-> "", researched |-> FALSE, outline |-> <<>>,
     current_section |-> NoSection, draft |-> <<>>, suggested_tags |-> <<>>]

\* list.index: the position of the first entry equal to x.
index(outline, x) == Min({i \in 1..Len(outline) : outline[i] = x})

\* BlogWriterAgent.research_topic
research_topic(state) == [state EXCEPT !.researched = TRUE]

\* BlogWriterAgent.create_outline; outline is the list of the non-empty
\* lines of the LLM's answer.
create_outline(state, outline) == [state EXCEPT !.outline = outline]

\* BlogWriterAgent.write_section, for a state whose outline is not empty.
write_section(state) ==
    LET section == IF state.current_section = NoSection
                   THEN state.outline[1]
                   ELSE state.current_section
        current_index == index(state.outline, section)
    IN [state EXCEPT
           !.draft = Append(@, section),
           !.current_section = IF current_index < Len(state.outline)
                               THEN state.outline[current_index + 1]
                               ELSE NoSection]

\* should_continue of create_workflow
should_continue(state) ==
    IF state.current_section = NoSection /\ state.draft # <<>>
    THEN "analyze"
    ELSE "continue_writing"

\* BlogWriterAgent.analyze_content
analyze_content(state) == [state EXCEPT !.suggested_tags = SuggestedTags]

\* ----------------------------------------------------- embedding service
Texts == {"a", "b", "c", "", " "}
BatchTexts == {"a", "b", ""}
TextLists == UNION {[1..n -> BatchTexts] : n \in 0..MaxTexts}
\* batch_size: <<>> is None, <<n>> the integer n.
BatchSizes == {<<>>} \cup {<<n>> : n \in (-1)..MaxBatch}

\* text.strip(), on the texts of the model.
strip(text) == IF text = " " THEN "" ELSE text

\* The vector the model gives for one text.
Vector(text) == <<"vector of", text>>

\* list(self._model.embed(batch)): one vector per text, in order.
embed(batch) == [i \in 1..Len(batch) |-> Vector(batch[i])]

compute_single_embedding(text, model_ok) ==
    IF model_ok THEN [outcome |-> "ok", value |-> embed(<<text>>)[1], model_calls |-> 1]
    ELSE [outcome |-> "Exception", value |-> <<>>, model_calls |-> 1]

\* functools.lru_cache(maxsize=cache_size): the cache is the sequence of
\* its entries, least recently used first.
Position(cache, text) == {i \in 1..Len(cache) : cache[i].key = text}
Without(cache, i) == SubSeq(cache, 1, i - 1) \o SubSeq(cache, i + 1, Len(cache))
Refresh_Skipped(cache, i) == cache
\* A hit moves the entry to the most recently used end.
Refresh(cache, i) == Append(Without(cache, i), cache[i])
\* A miss stores the result; a full cache drops its oldest entry first.
Store(cache, text, value) ==
    IF cache_size = 0 THEN cache
    ELSE Append(IF Len(cache) >= cache_size THEN Tail(cache) ELSE cache,
                [key |-> text, value |-> value])

get_single_embedding(cache, text, model_ok) ==
    IF Position(cache, text) # {}
    THEN LET i == CHOOSE j \in Position(cache, text) : TRUE
         IN [cache |-> Refresh(cache, i), outcome |-> "ok", value |-> cache[i].value,
             model_calls |-> 0]
    ELSE LET r == compute_single_embedding(text, model_ok)
         IN [cache |-> IF r.outcome = "ok" THEN Store(cache, text, r.value) ELSE cache,
             outcome |-> r.outcome, value |-> r.value, model_calls |-> r.model_calls]

\* EmbeddingService.get_embedding(text, use_cache)
service_get_embedding(cache, text, use_cache, model_ok) ==
    IF strip(text) = ""
    THEN [cache |-> cache, outcome |-> "ValueError", value |-> <<>>, model_calls |-> 0]
    ELSE IF use_cache THEN get_single_embedding(cache, text, model_ok)
    ELSE LET r == compute_single_embedding(text, model_ok)
         IN [cache |-> cache, outcome |-> r.outcome, value |-> r.value,
             model_calls |-> r.model_calls]

\* range(start, stop, step) for step # 0, as a sequence.
RECURSIVE range(_, _, _)
range(start, stop, step) ==
    IF (step > 0 /\ start < stop) \/ (step < 0 /\ start > stop)
    THEN <<start>> \o range(start + step, stop, step)
    ELSE <<>>

\* texts[i:j] for 0 <= i <= j.
Slice(texts, i, j) == SubSeq(texts, i + 1, IF j < Len(texts) THEN j ELSE Len(texts))

\* The loop of get_embeddings over range(0, len(texts), batch_size).
RECURSIVE Batches(_, _, _)
Batches(texts, starts, batch_size) ==
    IF starts = <<>> THEN <<>>
    ELSE embed(Slice(texts, Head(starts), Head(starts) + batch_size))
            \o Batches(texts, Tail(starts), batch_size)

\* if batch_size: None and 0 are false.
Truthy(batch_size) == batch_size # <<>> /\ batch_size[1] # 0

\* EmbeddingService.get_embeddings(texts, batch_size)
get_embeddings(texts, batch_size, model_ok) ==
    IF texts = <<>> \/ \E i \in 1..Len(texts) : strip(texts[i]) = ""
    THEN [outcome |-> "ValueError", value |-> <<>>, model_calls |-> 0]
    ELSE IF Truthy(batch_size)
    THEN LET starts == range(0, Len(texts), batch_size[1])
         IN IF starts # <<>> /\ ~model_ok
            THEN [outcome |-> "Exception", value |-> <<>>, model_calls |-> 1]
            ELSE [outcome |-> "ok", value |-> Batches(texts, starts, batch_size[1]),
                  model_calls |-> Len(starts)]
    ELSE IF ~model_ok
    THEN [outcome |-> "Exception", value |-> <<>>, model_calls |-> 1]
    ELSE [outcome |-> "ok", value |-> embed(texts), model_calls |-> 1]

\* The last call of the service and how it ended.
Call(op, texts, batch_size, use_cache, model_ok, r) ==
    [op |-> op, texts |-> texts, batch_size |-> batch_size, use_cache |-> use_cache,
     model_ok |-> model_ok, outcome |-> r.outcome, value |-> r.value,
     model_calls |-> r.model_calls]
NoCall == Call("", <<>>, <<>>, FALSE, FALSE,
               [outcome |-> "", value |-> <<>>, model_calls |-> 0])

\* ---------------------------------------------------------------- events
\* What the last call or task execution was and how it ended: body is the
\* request body (for write_blog, its tags argument under the key tags).
Event(kind, article_id, outcome, detail, user, json, msg, model) ==
    [kind |-> kind, article_id |-> article_id, outcome |-> outcome,
     detail |-> detail, user |-> user, body |-> json,
     retries |-> msg.retries, model_ok |-> model[1], model_called |-> model[2]]

NoMessage == Message(NoId, 0)
NoModel == <<FALSE, FALSE>>

SetDb(db) ==
    /\ articles' = db.articles
    /\ tags' = db.tags
    /\ article_tags' = db.article_tags
    /\ article_seq' = db.article_seq
    /\ tag_seq' = db.tag_seq

\* A process that is in no call: pc is its position, kind the handler it
\* runs, s its db.session, json the request body (for write_blog, its tags
\* argument under the key tags), i the index of the name the tags loop is
\* at, and user the caller (post) or author (write_blog).
IdleTx == [pc |-> "idle", kind |-> "", s |-> NewSession, json |-> <<>>,
           i |-> 0, user |-> NoId]

\* The sequences and the queue stay within the bounds of the model.
WithinBounds(db, q) ==
    /\ db.article_seq <= MaxArticleId
    /\ db.tag_seq <= MaxTagId
    /\ BagCardinality(q) <= MaxQueue

\* ---------------------------------------------------------------- actions
Init ==
    /\ articles = {}
    /\ tags = {}
    /\ article_tags = {}
    /\ article_seq = 0
    /\ tag_seq = 0
    /\ queue = EmptyBag
    /\ event = Event("init", NoId, "", "none", NoId, <<>>, NoMessage, NoModel)
    /\ tx = [p \in Procs |-> IdleTx]
    /\ calls = 0
    /\ flow = [node |-> "idle", state |-> BlogState]
    /\ service = [cache |-> <<>>, recency |-> <<>>, last |-> NoCall]

Post(current_user, json) ==
    \E r \in {post(Db, current_user, json)} :
    \E q \in {IF r.delay THEN delay(queue, r.article_id) ELSE queue} :
    \E status \in Responses(r.outcome) :
       /\ WithinBounds(r.db, q)
       /\ SetDb(r.db)
       /\ queue' = q
       /\ event' = Event("post", r.article_id, status, r.detail, current_user, json,
                         NoMessage, NoModel)
       /\ UNCHANGED <<tx, calls, aux>>

Put(article_id, json) ==
    \E r \in {put(Db, article_id, json)} :
    \E q \in {IF r.delay THEN delay(queue, r.article_id) ELSE queue} :
    \E status \in Responses(r.outcome) :
       /\ WithinBounds(r.db, q)
       /\ SetDb(r.db)
       /\ queue' = q
       /\ event' = Event("put", article_id, status, r.detail, NoId, json,
                         NoMessage, NoModel)
       /\ UNCHANGED <<tx, calls, aux>>

Delete(article_id) ==
    \E r \in {delete(Db, article_id)} :
       /\ SetDb(r.db)
       /\ queue' = queue
       /\ event' = Event("delete", article_id, r.outcome, r.detail, NoId, <<>>,
                         NoMessage, NoModel)
       /\ UNCHANGED <<tx, calls, aux>>

WriteBlog(topic, author_id, tag_names, workflow_ok) ==
    \E r \in {write_blog(Db, topic, author_id, tag_names, workflow_ok, "c")} :
       /\ WithinBounds(r.db, queue)
       /\ SetDb(r.db)
       /\ queue' = queue
       /\ event' = Event("write_blog", r.article_id, r.outcome, r.detail, author_id,
                         "tags" :> tag_names, NoMessage, NoModel)
       /\ UNCHANGED <<tx, calls, aux>>

\* generate_article_embedding.delay(article_id): a message for the task
\* reaches the broker.  In this repository only post (line 202) and put
\* (line 119) send one, and neither gets that far, so the message is an
\* input of the worker.
SendTask(article_id) ==
    /\ BagCardinality(queue) < MaxQueue
    /\ queue' = delay(queue, article_id)
    /\ event' = Event("delay", article_id, "ok", "none", NoId, <<>>, NoMessage, NoModel)
    /\ UNCHANGED <<articles, tags, article_tags, article_seq, tag_seq, tx, calls, aux>>

RunTask(msg, model_ok) ==
    /\ BagIn(msg, queue)
    /\ \E r \in {generate_article_embedding(Db, queue (-) SetToBag({msg}), msg, model_ok)} :
          /\ SetDb(r.db)
          /\ queue' = r.queue
          /\ event' = Event("task", msg.article_id, r.outcome, "none", NoId, <<>>, msg,
                            <<model_ok, r.model_called>>)
          /\ UNCHANGED <<tx, calls, aux>>

ArticleIds == 1..MaxArticleId

\* The web process and the Celery worker together.
Next ==
    \/ \E u \in Users, json \in PostBodies : Post(u, json)
    \/ \E a \in ArticleIds, json \in PutBodies : Put(a, json)
    \/ \E a \in ArticleIds : Delete(a)
    \/ \E t \in Titles, u \in Users, n \in TagLists, ok \in BOOLEAN : WriteBlog(t, u, n, ok)
    \/ \E a \in ArticleIds : SendTask(a)
    \/ \E msg \in BagToSet(queue), ok \in BOOLEAN : RunTask(msg, ok)

Spec == Init /\ [][Next]_vars

\* The requests and write_blog, one at a time, with no worker consuming the
\* queue.
NextApi ==
    \/ \E u \in Users, json \in PostBodies : Post(u, json)
    \/ \E a \in ArticleIds, json \in PutBodies : Put(a, json)
    \/ \E a \in ArticleIds : Delete(a)
    \/ \E t \in Titles, u \in Users, n \in TagLists, ok \in BOOLEAN : WriteBlog(t, u, n, ok)

SpecApi == Init /\ [][NextApi]_vars

\* The Celery worker running generate_article_embedding, with the requests
\* whose handlers send its messages and the calls that create and delete
\* the articles the messages name.
NextTask ==
    \/ \E u \in Users,
          json \in {j \in PostBodies : j["title"] = "A" /\ DOMAIN j = RequiredFields} :
          Post(u, json)
    \/ \E a \in ArticleIds : Put(a, "title" :> "B")
    \/ \E t \in Titles, u \in Users : WriteBlog(t, u, <<>>, TRUE)
    \/ \E a \in ArticleIds : Delete(a)
    \/ \E a \in ArticleIds : SendTask(a)
    \/ \E msg \in BagToSet(queue), ok \in BOOLEAN : RunTask(msg, ok)

SpecTask == Init /\ [][NextTask]_vars

\* ------------------------------------------- handlers, statement by statement
\* Two processes run the handlers and write_blog at the same time.  A step
\* is one statement that talks to the store: it sees the rows committed so
\* far and the writes of its own session, never the uncommitted writes of
\* the other process.  An INSERT of a unique key that the open transaction
\* of the other process has inserted waits until that transaction ends; it
\* then raises the unique violation if the other committed, and goes
\* through if the other rolled back.
Ctx(p) == [db |-> Db, s |-> tx[p].s]

\* How a call of the given kind ends in the context c.
TxResult(kind, c) ==
    IF kind = "write_blog"
    THEN Result(c, IF c.s.error # "none" THEN "Database error occurred" ELSE "success",
                FALSE)
    ELSE Result(c, IF c.s.error # "none" THEN "500" ELSE "ok", FALSE)

\* The call of process p stays open, at position pc and index i of its loop.
TxGoes(p, c, kind, json, user, pc, i) ==
    /\ c.db.article_seq <= MaxArticleId
    /\ c.db.tag_seq <= MaxTagId
    /\ article_seq' = c.db.article_seq
    /\ tag_seq' = c.db.tag_seq
    /\ tx' = [tx EXCEPT ![p] = [pc |-> pc, kind |-> kind, s |-> c.s, json |-> json,
                                i |-> i, user |-> user]]
    /\ UNCHANGED <<articles, tags, article_tags, queue, event, aux>>
    /\ calls' = calls + (IF tx[p].pc = "idle" THEN 1 ELSE 0)

\* The call of process p ends with the result r.
TxEnds(p, kind, r, article_id, json, user) ==
    \E q \in {IF r.delay THEN delay(queue, r.article_id) ELSE queue} :
    \E status \in Responses(r.outcome) :
       /\ WithinBounds(r.db, q)
       /\ SetDb(r.db)
       /\ queue' = q
       /\ event' = Event(kind, article_id, status, r.detail, user, json,
                         NoMessage, NoModel)
       /\ tx' = [tx EXCEPT ![p] = IdleTx]
       /\ UNCHANGED aux
       /\ calls' = calls + (IF tx[p].pc = "idle" THEN 1 ELSE 0)

\* A statement of the open call of p has run and left the context c: the
\* call goes on, unless the statement raised.
TxStep(p, c, pc, i) ==
    IF c.s.error # "none"
    THEN TxEnds(p, tx[p].kind, TxResult(tx[p].kind, c), c.s.article.id, tx[p].json,
                tx[p].user)
    ELSE TxGoes(p, c, tx[p].kind, tx[p].json, tx[p].user, pc, i)

\* ArticleResource.put and ArticleList.post end at their first statement,
\* before they talk to the store.
TxPut(p, article_id, json) ==
    /\ tx[p].pc = "idle"
    /\ calls < MaxCalls
    /\ \E r \in {put(Db, article_id, json)} :
          TxEnds(p, "put", r, article_id, json, NoId)

TxPost(p, current_user, json) ==
    /\ tx[p].pc = "idle"
    /\ calls < MaxCalls
    /\ \E r \in {post(Db, current_user, json)} :
          TxEnds(p, "post", r, r.article_id, json, current_user)

\* ArticleResource.delete, line 124: Article.query.get_or_404(article_id).
TxDelete(p, article_id) ==
    /\ tx[p].pc = "idle"
    /\ calls < MaxCalls
    /\ \E found \in {{a \in articles : a.id = article_id}} :
       \E c0 \in {[db |-> Db, s |-> NewSession]} :
          IF found = {}
          THEN TxEnds(p, "delete", Result(c0, "404", FALSE), article_id, <<>>, NoId)
          ELSE TxGoes(p, [c0 EXCEPT !.s.article = CHOOSE a \in found : TRUE,
                                    !.s.article_state = "persistent"],
                      "delete", <<>>, NoId, "delete", 0)

\* ArticleResource.delete, lines 125-126: db.session.delete(article) and
\* db.session.commit().  When another process has deleted the row since
\* line 124 the DELETE matches no row; SQLAlchemy then warns or raises
\* StaleDataError, depending on its version.
TxDeleteCommit(p) ==
    /\ tx[p].pc = "delete"
    /\ IF tx[p].s.article.id \in Ids(articles)
       THEN \E c2 \in {Commit([Ctx(p) EXCEPT !.s.article_state = "deleted"])} :
               TxEnds(p, "delete", TxResult("delete", c2), c2.s.article.id, <<>>, NoId)
       ELSE \E outcome \in {"ok", "500"} :
               TxEnds(p, "delete",
                      [Result(Ctx(p), outcome, FALSE) EXCEPT
                          !.detail = IF outcome = "ok" THEN "none" ELSE "StaleDataError"],
                      tx[p].s.article.id, <<>>, NoId)

\* The rows the open transactions of the other processes have inserted.
HeldTags(p) == UNION {tx[q].s.tags_ins : q \in Procs \ {p}}
HeldArticles(p) ==
    {tx[q].s.article : q \in {r \in Procs \ {p} : /\ tx[r].kind = "write_blog"
                                                    /\ tx[r].s.article_state = "persistent"}}

\* The flush of a pending Article is an INSERT that waits while another
\* open transaction has inserted an article with its slug.
ArticleInsertWaits(p) ==
    /\ tx[p].s.article_state = "pending"
    /\ \E a \in HeldArticles(p) : a.slug = tx[p].s.article.slug

\* write_blog up to its tags loop.
TxWriteBlog(p, topic, author_id, tag_names, workflow_ok) ==
    /\ tx[p].pc = "idle"
    /\ calls < MaxCalls
    /\ \E c0 \in {[db |-> Db, s |-> NewSession]} :
          IF ~workflow_ok
          THEN TxEnds(p, "write_blog", Result(c0, "An unexpected error occurred", FALSE),
                      NoId, "tags" :> tag_names, author_id)
          ELSE TxGoes(p, [c0 EXCEPT
                             !.s.article = ArticleRow(NoId, slugify(topic), topic, "c",
                                                      author_id, NoEmbedding),
                             !.s.article_state = "pending"],
                      "write_blog", "tags" :> tag_names, author_id, "loop", 1)

\* tag = Tag.query.filter_by(name=tag_name).first(), and when the tag is
\* found, the association row.
TxLookup(p) ==
    /\ tx[p].pc = "loop"
    /\ tx[p].i <= Len(TagsOf(tx[p].json))
    /\ ~ArticleInsertWaits(p)
    /\ \E c1 \in {Flush(Ctx(p))} :                  \* autoflush of the query
       \E tag \in {TagFirst(c1, TagsOf(tx[p].json)[tx[p].i])} :
          IF c1.s.error = "none" /\ tag # NoTag
          THEN TxStep(p, AddArticleTag(c1, tag.id), "loop", tx[p].i + 1)
          ELSE TxStep(p, c1, "insert", tx[p].i)

\* if not tag: add and flush the new Tag; then the association row.  The
\* INSERT waits while another open transaction has inserted the name.
TxInsert(p) ==
    /\ tx[p].pc = "insert"
    /\ \A t \in HeldTags(p) : t.name # TagsOf(tx[p].json)[tx[p].i]
    /\ \E c2 \in {AddTagFlush(Ctx(p), TagsOf(tx[p].json)[tx[p].i])} :
          IF c2.s.error = "none"
          THEN TxStep(p, AddArticleTag(c2, c2.db.tag_seq), "loop", tx[p].i + 1)
          ELSE TxStep(p, c2, "loop", tx[p].i)

\* db.session.commit() of write_blog, line 65: the transaction is over, the
\* rows are there for every process, and the article object is expired.
TxCommit(p) ==
    /\ tx[p].pc = "loop"
    /\ tx[p].i > Len(TagsOf(tx[p].json))
    /\ ~ArticleInsertWaits(p)
    /\ \E c3 \in {Commit(Ctx(p))} :
          IF c3.s.error # "none"
          THEN TxEnds(p, tx[p].kind, TxResult(tx[p].kind, c3), c3.s.article.id,
                      tx[p].json, tx[p].user)
          ELSE /\ WithinBounds(c3.db, queue)
               /\ SetDb(c3.db)
               /\ tx' = [tx EXCEPT ![p].pc = "committed",
                                   ![p].s = [NewSession EXCEPT
                                                !.article = c3.s.article,
                                                !.article_state = "expired"]]
               /\ UNCHANGED <<queue, event, calls, aux>>

\* write_blog, lines 67-80: the article is read again and the result built.
TxReturn(p) ==
    /\ tx[p].pc = "committed"
    /\ \E r \in {Reloaded(Ctx(p))} :
          TxEnds(p, tx[p].kind, r, tx[p].s.article.id, tx[p].json, tx[p].user)

TxTagLists == {<<>>, <<"x">>, <<"y">>, <<"x", "y">>}
TxPutLists == {<<"x">>, <<"y">>}
\* ------------------------------------------------ the workflow, node by node
FlowGoes(node, state) ==
    /\ flow' = [node |-> node, state |-> state]
    /\ UNCHANGED <<articles, tags, article_tags, article_seq, tag_seq, queue, event,
                   tx, calls, service>>

\* workflow.run(state.dict()): the entry point is research.
FlowRun(topic) ==
    /\ flow.node \in {"idle", "END", "raised"}
    /\ FlowGoes("research", [BlogState EXCEPT !.topic = topic])

Research ==
    /\ flow.node = "research"
    /\ FlowGoes("create_outline", research_topic(flow.state))

CreateOutline(outline) ==
    /\ flow.node = "create_outline"
    /\ FlowGoes("write_section", create_outline(flow.state, outline))

\* state["outline"][0] of an empty outline raises IndexError.
WriteSection ==
    /\ flow.node = "write_section"
    /\ Len(flow.state.draft) < MaxDraft
    /\ IF flow.state.outline = <<>>
       THEN FlowGoes("raised", flow.state)
       ELSE FlowGoes("should_continue", write_section(flow.state))

ShouldContinue ==
    /\ flow.node = "should_continue"
    /\ FlowGoes(IF should_continue(flow.state) = "analyze"
                THEN "analyze_content"
                ELSE "write_section",
                flow.state)

AnalyzeContent ==
    /\ flow.node = "analyze_content"
    /\ FlowGoes("END", analyze_content(flow.state))

NextFlow ==
    \/ \E t \in Titles : FlowRun(t)
    \/ Research
    \/ \E outline \in Outlines : CreateOutline(outline)
    \/ WriteSection
    \/ ShouldContinue
    \/ AnalyzeContent

SpecFlow == Init /\ [][NextFlow]_vars

\* ------------------------------------------------- the embedding service
\* recency lists the texts asked for through the cache, each once, the one
\* asked for longest ago first.
Touch(recency, text) ==
    Append(SelectSeq(recency, LAMBDA t : t # text), text)

GetEmbedding(text, use_cache, model_ok) ==
    \E r \in {service_get_embedding(service.cache, text, use_cache, model_ok)} :
       /\ service' = [cache |-> r.cache,
                      recency |-> IF use_cache /\ r.outcome = "ok"
                                  THEN Touch(service.recency, text)
                                  ELSE service.recency,
                      last |-> Call("get_embedding", <<text>>, <<>>, use_cache,
                                    model_ok, r)]
       /\ UNCHANGED <<articles, tags, article_tags, article_seq, tag_seq, queue,
                      event, tx, calls, flow>>

GetEmbeddings(texts, batch_size, model_ok) ==
    \E r \in {get_embeddings(texts, batch_size, model_ok)} :
       /\ service' = [service EXCEPT
                         !.last = Call("get_embeddings", texts, batch_size, FALSE,
                                       model_ok, r)]
       /\ UNCHANGED <<articles, tags, article_tags, article_seq, tag_seq, queue,
                      event, tx, calls, flow>>

NextEmbed ==
    \/ \E text \in Texts, use_cache \in BOOLEAN, ok \in BOOLEAN :
          GetEmbedding(text, use_cache, ok)
    \/ \E texts \in TextLists, batch_size \in BatchSizes, ok \in BOOLEAN :
          GetEmbeddings(texts, batch_size, ok)

SpecEmbed == Init /\ [][NextEmbed]_vars

NextTx ==
    \/ \E p \in Procs, a \in ArticleIds, n \in TxPutLists : TxPut(p, a, "tags" :> n)
    \/ \E p \in Procs, u \in Users,
          json \in {j \in PostBodies : j["title"] = "A" /\ j["slug"] = "b"
                                          /\ DOMAIN j = RequiredFields} :
          TxPost(p, u, json)
    \/ \E p \in Procs, a \in ArticleIds : TxDelete(p, a)
    \/ \E p \in Procs : TxDeleteCommit(p)
    \/ \E p \in Procs, t \in Titles, u \in Users, n \in TxTagLists :
          TxWriteBlog(p, t, u, n, TRUE)
    \/ \E p \in Procs : TxLookup(p)
    \/ \E p \in Procs : TxInsert(p)
    \/ \E p \in Procs : TxCommit(p)
    \/ \E p \in Procs : TxReturn(p)

SpecTx == Init /\ [][NextTx]_vars

\* ---------------------------------------------------------------- claims
AssocRows(a) == {r \in article_tags : r.article_id = a}
AssocNames(a) == {t.name : t \in {u \in tags : u.id \in {r.tag_id : r \in AssocRows(a)}}}
TagsNamed(name) == {t \in tags : t.name = name}
ArticleById(rows, a) == CHOOSE r \in rows : r.id = a

\* A request body as the claims take it to be valid: the fields it carries
\* are not empty, and a body that is not partial carries all of them.
WellFormed(body, partial) ==
    /\ \A k \in RequiredFields \cap DOMAIN body : body[k] # ""
    /\ partial \/ RequiredFields \subseteq DOMAIN body

\* The request of the last event is a put of an existing article with a
\* well formed body.
PutOfExisting ==
    /\ event.kind = "put"
    /\ event.article_id \in Ids(articles)
    /\ WellFormed(event.body, TRUE)

\* C1 (as claimed): a put that sends a tags list N for an existing article
\* commits, and the article is then associated with exactly the tags named
\* in N, each once, whatever it was associated with before.
C1_PutReplacesTags ==
    (PutOfExisting /\ "tags" \in DOMAIN event.body) =>
        /\ event.outcome = "ok"
        /\ AssocNames(event.article_id) = Range(event.body["tags"])
        /\ Cardinality(AssocRows(event.article_id))
              = Cardinality(Range(event.body["tags"]))

\* C2 (as claimed): after a post, a put of an existing article or a
\* write_blog that was given a tags list (and was not stopped by its
\* workflow or by the slug of its article), exactly one Tag row exists for
\* every name in the list.
C2_OneTagPerRequestedName ==
    (/\ event.kind \in {"post", "put", "write_blog"}
     /\ "tags" \in DOMAIN event.body
     /\ event.kind = "post" => WellFormed(event.body, FALSE)
     /\ event.kind = "put" => PutOfExisting
     /\ event.outcome # "An unexpected error occurred"
     /\ event.detail # "UniqueViolation articles.slug") =>
        \A name \in Range(event.body["tags"]) : Cardinality(TagsNamed(name)) = 1

\* C3: however two calls interleave, the committed tags table never holds
\* two rows with one name; a call that meets the unique constraint of
\* tags.name ends with the database error, leaves the committed tables as
\* they are, and the name it asked for is committed once.
C3_ConcurrentResolveOneRow ==
    /\ [](\A name \in TagNames : Cardinality(TagsNamed(name)) <= 1)
    /\ [][(/\ event'.detail = "UniqueViolation tags.name"
            /\ \E p \in Procs : tx[p].pc # "idle" /\ tx'[p].pc = "idle") =>
                /\ event'.outcome \in {"500", "Database error occurred"}
                /\ UNCHANGED <<articles, tags, article_tags>>
                /\ \E name \in Range(TagsOf(event'.body)) :
                      Cardinality(TagsNamed(name)) = 1
         ]_vars

\* A call has failed on the unique constraint of tags.name, which only a
\* concurrent insert of the name can cause, and one row with the name is
\* committed.
C3_Witness ==
    /\ event.outcome \in {"500", "Database error occurred"}
    /\ event.detail = "UniqueViolation tags.name"
    /\ \E name \in Range(TagsOf(event.body)) : Cardinality(TagsNamed(name)) = 1

\* C4 (as claimed): a post with valid fields and a free slug persists one
\* article whose author is the caller and whose associations are exactly the
\* tags named in its tags list, each row carrying the id of the new article.
C4_PostPersistsWithTags ==
    (/\ event.kind = "post" /\ WellFormed(event.body, FALSE)
     /\ "tags" \in DOMAIN event.body
     /\ \A a \in articles : a.slug = event.body["slug"] => a.id = event.article_id) =>
        /\ event.outcome = "ok"
        /\ \E a \in articles : a.id = event.article_id /\ a.author_id = event.user
        /\ AssocNames(event.article_id) = Range(event.body["tags"])

\* C5 (as claimed): a delete of an existing article succeeds and removes the
\* article together with all its association rows.
C5_DeleteCascades ==
    (event.kind = "delete" /\ event.outcome # "404") =>
        /\ event.outcome = "ok"
        /\ event.article_id \notin Ids(articles)
        /\ AssocRows(event.article_id) = {}

\* C6: a put of an existing article leaves every field that its body does
\* not carry, the author and the embedding as they were, leaves every other
\* article as it was, and without a tags key leaves the article_tags and
\* the tags tables as they were.
C6_PutIsPartial ==
    [][(/\ event'.kind = "put"
         /\ event'.article_id \in Ids(articles)
         /\ <<event, articles, tags, article_tags>>'
               # <<event, articles, tags, article_tags>>) =>
        /\ Ids(articles') = Ids(articles)
        /\ \A a \in articles :
            LET new == ArticleById(articles', a.id)
            IN IF a.id # event'.article_id THEN new = a
               ELSE /\ \A k \in RequiredFields \ DOMAIN event'.body : new[k] = a[k]
                    /\ new.author_id = a.author_id
                    /\ new.embedding = a.embedding
        /\ "tags" \notin DOMAIN event'.body =>
              (article_tags' = article_tags /\ tags' = tags)
      ]_vars

\* A put that carries a title only has run on an article with slug a and
\* tag x: the slug, the content and the association are as they were.
C6_Witness ==
    /\ event.kind = "put" /\ DOMAIN event.body = {"title"}
    /\ \E a \in articles : /\ a.id = event.article_id
                            /\ a.slug = "a" /\ a.content = "c"
    /\ AssocNames(event.article_id) = {"x"}

\* C7: a post or put that commits adds exactly one message, carrying the id
\* of the committed article, to the queue; a post or put that fails and a
\* delete leave the queue as it was.
C7_EnqueueAfterCommit ==
    [][(/\ event'.kind \in {"post", "put", "delete"}
         /\ <<event, queue, articles>>' # <<event, queue, articles>>) =>
        /\ (event'.kind # "delete" /\ event'.outcome = "ok") =>
               /\ queue' = queue (+) SetToBag({Message(event'.article_id, 0)})
               /\ event'.article_id \in Ids(articles')
        /\ (event'.kind = "delete" \/ event'.outcome # "ok") => queue' = queue
      ]_vars

\* A post with valid fields has failed while a message for article 1 was
\* waiting: that message, and no other, is in the queue.
C7_Witness ==
    /\ event.kind = "post" /\ WellFormed(event.body, FALSE)
    /\ event.outcome # "ok"
    /\ queue = SetToBag({Message(1, 0)})

\* C8: an execution of the task for an article id that has no row returns
\* normally: no retry is scheduled, the embedding model is not called and
\* no row is created or changed.
C8_MissingArticleIsNoOp ==
    [][(event'.kind = "task" /\ queue' # queue
            /\ event'.article_id \notin Ids(articles)) =>
        /\ event'.outcome = "returned"
        /\ ~event'.model_called
        /\ queue' = queue (-) SetToBag({Message(event'.article_id, event'.retries)})
        /\ UNCHANGED <<articles, tags, article_tags, article_seq, tag_seq>>
      ]_vars

\* The task has run for the first article, which write_blog created and a
\* delete removed.
C8_Witness ==
    /\ event.kind = "task" /\ event.outcome = "returned"
    /\ event.article_id = 1 /\ article_seq >= 1
    /\ event.article_id \notin Ids(articles)

\* C9 (as claimed): an execution that fails is retried while fewer than
\* max_retries retries were made, and the failure of the last retry raises
\* nothing out of the task.
C9_RetriesThenStops ==
    (event.kind = "task" /\ event.outcome \notin {"returned", "succeeded"}) =>
        /\ event.retries < max_retries => event.outcome = "retry"
        /\ event.retries = max_retries => event.outcome # "raised"

\* C10 (as claimed): an execution for an existing article with the embedding
\* model answering succeeds on that run and stores the vector of the
\* article's text in its embedding field.
C10_EmbeddingStored ==
    (event.kind = "task" /\ event.model_ok /\ event.article_id \in Ids(articles)) =>
        /\ event.outcome = "succeeded"
        /\ ArticleById(articles, event.article_id).embedding # NoEmbedding

\* C11 (as claimed): for every non-empty outline, with or without repeated
\* lines, write_section runs no more often than the outline has entries, and
\* once it has run for every entry the pointer is None, so that
\* should_continue routes to analyze_content and the loop ends.
C11_SectionLoopTerminates ==
    flow.state.outline # <<>> =>
        /\ Len(flow.state.draft) <= Len(flow.state.outline)
        /\ (Len(flow.state.draft) = Len(flow.state.outline)
                => flow.state.current_section = NoSection)

\* C12 (as claimed): the headings of the draft are, at every moment, the
\* first entries of the outline in outline order, and analyze_content runs
\* only when the draft has one heading per entry.
C12_DraftFollowsOutline ==
    /\ Len(flow.state.draft) <= Len(flow.state.outline)
          => flow.state.draft = SubSeq(flow.state.outline, 1, Len(flow.state.draft))
    /\ Len(flow.state.draft) <= Len(flow.state.outline)
    /\ flow.node \in {"analyze_content", "END"} => flow.state.draft = flow.state.outline

\* C13: every run of write_blog returns one of its three results; a run
\* that does not return success leaves the three tables as they were, and
\* its error is "Database error occurred" exactly when the store raised.
C13_WriteBlogFailsClean ==
    [][(event'.kind = "write_blog" /\ <<event, articles, tags, article_tags>>'
                                        # <<event, articles, tags, article_tags>>) =>
        /\ event'.outcome \in {"success", "Database error occurred",
                                "An unexpected error occurred"}
        /\ event'.outcome # "success" =>
              UNCHANGED <<articles, tags, article_tags>>
        /\ event'.outcome = "Database error occurred" <=> event'.detail # "none"
      ]_vars

\* A run of write_blog has failed on the store after it had inserted and
\* flushed its article and a new Tag: neither is there.
C13_Witness ==
    /\ event.kind = "write_blog" /\ event.outcome = "Database error occurred"
    /\ TagsOf(event.body) = <<"x", "x">>
    /\ TagsNamed("x") = {}
    /\ event.article_id # NoId /\ event.article_id \notin Ids(articles)

\* C14: no two Article rows ever share a slug; a post or put that names the
\* slug of another article does not succeed and changes no table; a
\* write_blog that the store refuses for a duplicate slug returns its
\* database error and changes no table; a write_blog that succeeds leaves
\* an article whose slug no other article carried before.
C14_SlugsStayUnique ==
    /\ [](\A a1, a2 \in articles : a1.slug = a2.slug => a1 = a2)
    /\ [][/\ (event'.detail = "UniqueViolation articles.slug" /\ event' # event) =>
               /\ UNCHANGED <<articles, tags, article_tags>>
               /\ event'.outcome = "Database error occurred"
          /\ (/\ event'.kind \in {"post", "put"} /\ event' # event
              /\ "slug" \in DOMAIN event'.body
              /\ \E a \in articles : a.slug = event'.body["slug"]
                                         /\ a.id # event'.article_id) =>
               /\ event'.outcome # "ok"
               /\ UNCHANGED <<articles, tags, article_tags>>
          /\ (event'.kind = "write_blog" /\ event'.outcome = "success"
                    /\ articles' # articles) =>
               \A a \in articles' : a.id = event'.article_id =>
                   \A b \in articles : b.slug = a.slug => b.id = a.id
        ]_vars

\* write_blog was refused for the slug of an article that exists.
C14_Witness ==
    /\ event.kind = "write_blog"
    /\ event.detail = "UniqueViolation articles.slug"
    /\ event.outcome = "Database error occurred"
    /\ event.article_id \notin Ids(articles)
    /\ \E a \in articles : a.slug = slugify("A")

\* C15: get_embeddings on a non-empty list of non-empty texts, given a
\* batch size, returns one vector per text in input order, the same list
\* as without a batch size; with an empty list or an empty text it raises
\* the validation error without calling the model.
C15_BatchesEqualWhole ==
    service.last.op = "get_embeddings" =>
        LET c == service.last
            n == Len(c.texts)
        IN /\ (/\ n > 0
                /\ \A i \in 1..n : c.texts[i] # ""
                /\ c.batch_size # <<>>
                /\ c.model_ok) =>
                    /\ c.outcome = "ok"
                    /\ Len(c.value) = n
                    /\ \A i \in 1..Len(c.value) : c.value[i] = Vector(c.texts[i])
                    /\ c.value = get_embeddings(c.texts, <<>>, TRUE).value
           /\ (n = 0 \/ \E i \in 1..n : c.texts[i] = "") =>
                    c.outcome = "ValueError" /\ c.model_calls = 0

Keys(cache) == {cache[i].key : i \in 1..Len(cache)}

\* C16: the cache never holds more than cache_size entries; a call through
\* the cache for a text that is in it returns the stored vector and does
\* not invoke the model; a call that stores a new text in a full cache
\* evicts the entry that was asked for longest ago, and only that one.
C16_CacheIsBoundedLru ==
    /\ [](Len(service.cache) <= cache_size)
    /\ [][(service'.last.op = "get_embedding" /\ service'.last.use_cache) =>
            LET text == service'.last.texts[1]
                cache == service.cache
                held == SelectSeq(service.recency, LAMBDA t : t \in Keys(cache))
            IN /\ text \in Keys(cache) =>
                    /\ service'.last.outcome = "ok"
                    /\ service'.last.model_calls = 0
                    /\ \E i \in 1..Len(cache) :
                          cache[i].key = text /\ cache[i].value = service'.last.value
                    /\ Keys(service'.cache) = Keys(cache)
               /\ (text \notin Keys(cache) /\ service'.last.outcome = "ok"
                        /\ Len(cache) = cache_size /\ cache_size > 0) =>
                    /\ service'.last.model_calls = 1
                    /\ Keys(service'.cache) = (Keys(cache) \ {Head(held)}) \cup {text}
        ]_vars

\* A text was served from the cache after another text had been evicted
\* from it.
C16_Witness ==
    /\ service.last.op = "get_embedding" /\ service.last.use_cache
    /\ service.last.outcome = "ok" /\ service.last.model_calls = 0
    /\ Len(service.cache) = cache_size
    /\ Len(service.recency) > cache_size

Repeats(names) == \E i, j \in 1..Len(names) : i # j /\ names[i] = names[j]

\* C17 (as claimed): no two article_tags rows carry the same (article_id,
\* tag_id), and a put of an existing article or a write_blog whose tag list
\* names a tag twice, and which no other failure stops, succeeds and leaves
\* the article with one association per name.
C17_RepeatedNameOneAssociation ==
    /\ \A r1, r2 \in article_tags :
          (r1.article_id = r2.article_id /\ r1.tag_id = r2.tag_id) => r1 = r2
    /\ (/\ event.kind \in {"put", "write_blog"}
        /\ "tags" \in DOMAIN event.body /\ Repeats(event.body["tags"])
        /\ event.kind = "put" => PutOfExisting
        /\ event.outcome # "An unexpected error occurred"
        /\ event.detail # "UniqueViolation articles.slug") =>
            /\ event.outcome \in {"ok", "success"}
            /\ \A name \in Range(event.body["tags"]) :
                  \E t \in tags :
                     /\ t.name = name
                     /\ Cardinality({r \in article_tags :
                                       r.article_id = event.article_id
                                          /\ r.tag_id = t.id}) = 1

\* C19: a write_blog that persists its article leaves it associated with
\* exactly the tags of its tags argument, creates no Tag under another
\* name and no association of another article; in particular no Tag
\* carries a name that only analyze_content suggested.
C19_OnlyExplicitTags ==
    [][(event'.kind = "write_blog" /\ event'.outcome = "success"
            /\ articles' # articles) =>
        /\ {t.name : t \in {u \in tags' :
                \E r \in article_tags' : r.article_id = event'.article_id
                                            /\ r.tag_id = u.id}}
             = Range(TagsOf(event'.body))
        /\ \A t \in tags' \ tags : t.name \in Range(TagsOf(event'.body))
        /\ \A r \in article_tags' \ article_tags : r.article_id = event'.article_id
        /\ \A t \in tags' :
              t.name \in Range(SuggestedTags) => t.name \in Range(TagsOf(event'.body))
      ]_vars

\* write_blog has persisted an article with the one tag it was given.
C19_Witness ==
    /\ event.kind = "write_blog" /\ event.outcome = "success"
    /\ TagsOf(event.body) = <<"x">>
    /\ event.article_id \in Ids(articles)
    /\ AssocNames(event.article_id) = {"x"}

====
